---------------------------- MODULE Spec2Model ----------------------------
(***************************************************************************)
(* Model of app.py: the row selector (get_tasks_from_excel), the           *)
(* generation adapters (generate_* / parse_response) and the batch run of  *)
(* step 4 (ThreadPoolExecutor + as_completed loop writing the worksheet),  *)
(* the messages of the run button and the cost estimate (calculate_cost).  *)
(*                                                                         *)
(* Text is a sequence of tokens.  A token is one character class or one    *)
(* section marker of the response format:                                  *)
(*   "Z"  = the marker "ЗАДАНИЕ:"                                          *)
(*   "K"  = the marker "КЛЮЧ (ОТВЕТ):"                                     *)
(*   "O"  = the marker "ОТВЕТ:"   (not a substring of "K": in "K" the word *)
(*          is followed by ")" and not by ":")                             *)
(*   " "  = a blank, "\n" = a line break, anything else = a letter.        *)
(* Python's None is the value None below; a column index that              *)
(* headers.get() did not find (None in Python) is the number 0.            *)
(***************************************************************************)
EXTENDS Integers, Sequences, FiniteSets, TLC

VARIABLES
    uploaded_file,     \* st.session_state.uploaded_file: the workbook's file
    chosen_model,      \* st.session_state.chosen_model
    chosen_program,    \* st.session_state.chosen_program
    processed_data,    \* st.session_state.processed_data: the saved workbook
    promts_csv,        \* the file promts.csv
    pc,                \* position of the script
    wb,                \* the workbook loaded for the run (rows of cells)
    tasks,             \* the list returned by get_tasks_from_excel
    col_task,          \* resolved column of the task cell (0: None)
    col_answer,        \* resolved column of the answer cell (0: None)
    futures,           \* per submitted task: state, calls and result of its future
    errors,            \* the error counter of the run
    results,           \* the previews of the run, one per success (the list
                       \* results, without the order of its entries)
    completed,         \* the completion counter of the run
    progress,          \* the texts written to status_text, in order
    notice,            \* the messages the script shows: st.success / st.warning /
                       \* st.error
    args,              \* arguments of a function called on its own
    ret                \* what that call returned

vars == <<uploaded_file, chosen_model, chosen_program, processed_data,
          promts_csv, pc, wb, tasks, col_task, col_answer, futures, errors,
          results, completed, progress, notice, args, ret>>

session == <<uploaded_file, chosen_model, chosen_program, processed_data>>
run_but_notice == <<wb, tasks, col_task, col_answer, futures, errors, results,
                    completed, progress>>
run == <<wb, tasks, col_task, col_answer, futures, errors, results,
         completed, progress, notice>>

---------------------------------------------------------------------------
(* Bounds of the model                                                     *)

\* longest backend response text, in tokens
MaxLen == 5
\* most data rows of a worksheet given to the selector on its own
MaxRow == 3
\* most data rows of an uploaded worksheet
MaxRunRow == 3
\* largest row-count limit of a batch run over such a worksheet
MaxBatch == 2
\* most data rows of the worksheet of a run checked for termination
MaxLiveRow == 2
\* largest number of tasks given to calculate_cost on its own
MaxTasks == 6
\* largest exchange rate given to calculate_cost, besides the fallback rate
MaxRate == 4
\* significant bits a float keeps in the model (a Python float keeps 53)
MantissaBits == 4

---------------------------------------------------------------------------
(* Constants of the program                                                *)

MAX_WORKERS == 10

---------------------------------------------------------------------------
(* Text                                                                    *)

None == <<"None">>

Whitespace == {" ", "\n"}

\* Python truthiness of an optional text: None and "" are false
Truthy(x) == x # None /\ x # <<>>

RECURSIVE lstrip(_)
lstrip(s) ==
    IF s = <<>> THEN <<>>
    ELSE IF Head(s) \in Whitespace THEN lstrip(Tail(s)) ELSE s

RECURSIVE rstrip(_)
rstrip(s) ==
    IF s = <<>> THEN <<>>
    ELSE IF s[Len(s)] \in Whitespace THEN rstrip(SubSeq(s, 1, Len(s) - 1)) ELSE s

\* str.strip()
strip(s) == rstrip(lstrip(s))

\* marker in text
Contains(s, tok) == \E i \in 1..Len(s) : s[i] = tok

\* index of the first occurrence of tok in s, Len(s) + 1 when there is none
RECURSIVE find(_, _)
find(s, tok) ==
    IF s = <<>> THEN 1
    ELSE IF Head(s) = tok THEN 1 ELSE 1 + find(Tail(s), tok)

\* text.split(tok): the list of the pieces between the occurrences of tok
RECURSIVE split(_, _)
split(s, tok) ==
    LET i == find(s, tok)
    IN  IF i > Len(s) THEN <<s>>
        ELSE <<SubSeq(s, 1, i - 1)>> \o split(SubSeq(s, i + 1, Len(s)), tok)

\* text.replace(tok, "")
replace(s, tok) == SelectSeq(s, LAMBDA t : t # tok)

\* '\n'.join(lines)
RECURSIVE join(_)
join(lines) ==
    IF lines = <<>> THEN <<>>
    ELSE IF Len(lines) = 1 THEN lines[1]
    ELSE lines[1] \o <<"\n">> \o join(Tail(lines))

---------------------------------------------------------------------------
(* Generation adapters                                                     *)

\* parse_response giving the larger half of the lines to the task
parse_response_ceil(response_text) ==
    IF Contains(response_text, "Z") /\ Contains(response_text, "K") THEN
        LET parts == split(response_text, "K")
        IN  [task_text   |-> strip(replace(parts[1], "Z")),
             answer_text |-> strip(parts[2]),
             error       |-> None]
    ELSE IF Contains(response_text, "Z") /\ Contains(response_text, "O") THEN
        LET parts == split(response_text, "O")
        IN  [task_text   |-> strip(replace(parts[1], "Z")),
             answer_text |-> strip(parts[2]),
             error       |-> None]
    ELSE
        LET lines == split(strip(response_text), "\n")
            mid   == (Len(lines) + 1) \div 2
        IN  [task_text   |-> strip(join(SubSeq(lines, 1, mid))),
             answer_text |-> strip(join(SubSeq(lines, mid + 1, Len(lines)))),
             error       |-> None]

\* parse_response(response_text) -> (task, answer, None)
parse_response(response_text) ==
    IF Contains(response_text, "Z") /\ Contains(response_text, "K") THEN
        LET parts == split(response_text, "K")
        IN  [task_text   |-> strip(replace(parts[1], "Z")),
             answer_text |-> strip(parts[2]),
             error       |-> None]
    ELSE IF Contains(response_text, "Z") /\ Contains(response_text, "O") THEN
        LET parts == split(response_text, "O")
        IN  [task_text   |-> strip(replace(parts[1], "Z")),
             answer_text |-> strip(parts[2]),
             error       |-> None]
    ELSE
        LET lines == split(strip(response_text), "\n")
            mid   == Len(lines) \div 2
        IN  [task_text   |-> strip(join(SubSeq(lines, 1, mid))),
             answer_text |-> strip(join(SubSeq(lines, mid + 1, Len(lines)))),
             error       |-> None]

\* What replicate.run does for one call: it yields a response text, or it
\* raises an exception e inside the adapter's try block (msg is str(e)).
ResponseOf(t) == [kind |-> "text", text |-> t]
FailureOf(m)  == [kind |-> "fail", text |-> m]

\* generate_deepseek, generate_claude, generate_gpt4o, generate_llama,
\* generate_gemini_flash, generate_gpt51, generate_kimi: the seven bodies
\* differ in the model identifier and the request parameters only.
generate_func(outcome) ==
    IF outcome.kind = "text" THEN parse_response(outcome.text)
    ELSE [task_text |-> None, answer_text |-> None, error |-> outcome.text]

---------------------------------------------------------------------------
(* Cost estimate                                                           *)

\* MODEL_COSTS, in units of 0.0001 USD per task
MODEL_COSTS ==
    (<<"deepseek">> :> 2) @@ (<<"claude">> :> 50) @@ (<<"gpt4o">> :> 40) @@
    (<<"llama">> :> 20) @@ (<<"gemini_flash">> :> 40) @@ (<<"gpt51">> :> 180) @@
    (<<"kimi">> :> 38)

\* the number of bits of a natural number
RECURSIVE BitLen(_)
BitLen(x) == IF x = 0 THEN 0 ELSE 1 + BitLen(x \div 2)

\* the float nearest to a non-negative number: MantissaBits significant
\* bits, ties to the even mantissa
round_to_float(x) ==
    LET e == BitLen(x) - MantissaBits
    IN  IF e <= 0 THEN x
        ELSE LET u == 2 ^ e
                 q == x \div u
                 rem == x % u
                 up == 2 * rem > u \/ (2 * rem = u /\ q % 2 = 1)
             IN  (IF up THEN q + 1 ELSE q) * u

\* a * b of two non-negative floats
float_mul(a, b) == round_to_float(a * b)

\* calculate_cost with a fixed fee added to the cost in USD
calculate_cost_with_fee(num_tasks, model_key, usd_rub_rate) ==
    LET cost_usd == float_mul(num_tasks, MODEL_COSTS[model_key]) + 1
        cost_rub == float_mul(cost_usd, usd_rub_rate)
    IN  [cost_usd |-> cost_usd, cost_rub |-> cost_rub]

\* calculate_cost(num_tasks, model_key, usd_rub_rate) -> (cost_usd, cost_rub)
calculate_cost(num_tasks, model_key, usd_rub_rate) ==
    LET cost_usd == float_mul(num_tasks, MODEL_COSTS[model_key])
        cost_rub == float_mul(cost_usd, usd_rub_rate)
    IN  [cost_usd |-> cost_usd, cost_rub |-> cost_rub]

---------------------------------------------------------------------------
(* Files                                                                   *)

\* header labels: 'Образовательная программа', 'Дисциплина / модуль /
\* практика', 'Уровень сложности', 'Задание', 'Ключ (ответ)'
LblProgram    == <<"Program">>
LblDiscipline == <<"Discipline">>
LblLevel      == <<"Level">>
LblTask       == <<"Task">>
LblAnswer     == <<"Answer">>

\* promts.csv: its columns 'Уровень сложности' and 'Промпт', row by row; a
\* file that cannot be opened or read has missing = TRUE
CatalogFile ==
    [missing |-> FALSE,
     rows |-> << <<<<"Easy">>, <<"p">>>>, <<<<" ", "Hard">>, <<" ">>>> >>]
NoCatalogFile == [missing |-> TRUE, rows |-> <<>>]

\* load_prompts(): level -> prompt for the rows whose level and prompt are
\* both non-empty after strip(); a later row replaces an earlier one; {} when
\* the file cannot be read
load_prompts(csv) ==
    IF csv.missing THEN <<>>
    ELSE LET good == SelectSeq(csv.rows, LAMBDA r : strip(r[1]) # <<>> /\ strip(r[2]) # <<>>)
             keys == {strip(good[i][1]) : i \in 1..Len(good)}
             last(k) == CHOOSE i \in 1..Len(good) :
                           /\ strip(good[i][1]) = k
                           /\ \A j \in 1..Len(good) : strip(good[j][1]) = k => j <= i
         IN  [k \in keys |-> strip(good[last(k)][2])]

\* prompts.get(level)
prompts_get(prompts, level) ==
    IF level \in DOMAIN prompts THEN prompts[level] ELSE None

\* load_excel(file): the workbook, or None (the empty sequence) when
\* openpyxl cannot read the file
load_excel(file) == IF file.corrupt THEN <<>> ELSE file.sheet

max_row(ws) == Len(ws)
max_column(ws) == Len(ws[1])

\* ws.cell(row, col).value
cell(ws, row, col) == ws[row][col]

\* ws.cell(row, col, value)
cell_set(ws, row, col, value) == [ws EXCEPT ![row][col] = value]

\* headers.get(label) of the dict built from row 1: the last column whose
\* stripped header is label, 0 (None) when there is none
headers_get(ws, label) ==
    LET cols == {c \in 1..max_column(ws) :
                    Truthy(cell(ws, 1, c)) /\ strip(cell(ws, 1, c)) = label}
    IN  IF cols = {} THEN 0 ELSE CHOOSE c \in cols : \A d \in cols : d <= c

---------------------------------------------------------------------------
(* Row selector                                                            *)

WorkItem(ws, row, cp, cd, cl, prompts) ==
    [row        |-> row,
     program    |-> IF cp # 0 THEN cell(ws, row, cp) ELSE None,
     discipline |-> cell(ws, row, cd),
     level      |-> cell(ws, row, cl),
     prompt     |-> prompts_get(prompts, cell(ws, row, cl))]

\* Selectable without the test of the task cell
Selectable_ignoring_task(ws, row, cd, cl, ct, prompts) ==
    /\ Truthy(cell(ws, row, cd))
    /\ Truthy(cell(ws, row, cl))
    /\ Truthy(prompts_get(prompts, cell(ws, row, cl)))

\* if discipline and level and not current_task: ... if prompt_template:
Selectable(ws, row, cd, cl, ct, prompts) ==
    /\ Truthy(cell(ws, row, cd))
    /\ Truthy(cell(ws, row, cl))
    /\ ~Truthy(cell(ws, row, ct))
    /\ Truthy(prompts_get(prompts, cell(ws, row, cl)))

\* scan_program stopping at the row limit of the branch without filter
RECURSIVE scan_program_cut(_, _, _, _, _, _, _, _, _, _)
scan_program_cut(ws, row, acc, max_rows, filter_program, cp, cd, cl, ct, prompts) ==
    IF row > max_row(ws) \/ (max_rows # 0 /\ row >= max_rows + 2) THEN acc
    ELSE LET program == IF cp # 0 THEN cell(ws, row, cp) ELSE None
             take == /\ Truthy(program)
                     /\ strip(program) = strip(filter_program)
                     /\ Truthy(cell(ws, row, cd))
                     /\ Truthy(cell(ws, row, cl))
                     /\ ~Truthy(cell(ws, row, ct))
                     /\ Truthy(prompts_get(prompts, cell(ws, row, cl)))
         IN  scan_program_cut(ws, row + 1,
                 IF take THEN Append(acc, [row |-> row, program |-> program,
                                           discipline |-> cell(ws, row, cd),
                                           level |-> cell(ws, row, cl),
                                           prompt |-> prompts_get(prompts, cell(ws, row, cl))])
                 ELSE acc,
                 max_rows, filter_program, cp, cd, cl, ct, prompts)

\* the loop of the branch with a program filter, from row on
RECURSIVE scan_program(_, _, _, _, _, _, _, _, _, _)
scan_program(ws, row, acc, max_rows, filter_program, cp, cd, cl, ct, prompts) ==
    IF row > max_row(ws) THEN acc
    ELSE LET program == IF cp # 0 THEN cell(ws, row, cp) ELSE None
             program_normalized == IF Truthy(program) THEN strip(program) ELSE None
             filter_normalized == strip(filter_program)
         IN  IF program_normalized # filter_normalized
             THEN scan_program(ws, row + 1, acc, max_rows, filter_program,
                               cp, cd, cl, ct, prompts)
             ELSE IF Selectable(ws, row, cd, cl, ct, prompts)
             THEN LET acc2 == Append(acc, WorkItem(ws, row, cp, cd, cl, prompts))
                  IN  IF max_rows # 0 /\ Len(acc2) >= max_rows THEN acc2
                      ELSE scan_program(ws, row + 1, acc2, max_rows,
                                        filter_program, cp, cd, cl, ct, prompts)
             ELSE scan_program(ws, row + 1, acc, max_rows, filter_program,
                               cp, cd, cl, ct, prompts)

\* the loop of the branch without a program filter, over range(row, row_limit)
RECURSIVE scan_all(_, _, _, _, _, _, _, _, _)
scan_all(ws, row, row_limit, acc, cp, cd, cl, ct, prompts) ==
    IF row >= row_limit THEN acc
    ELSE scan_all(ws, row + 1, row_limit,
                  IF Selectable(ws, row, cd, cl, ct, prompts)
                  THEN Append(acc, WorkItem(ws, row, cp, cd, cl, prompts))
                  ELSE acc,
                  cp, cd, cl, ct, prompts)

Min(a, b) == IF a <= b THEN a ELSE b

\* row_limit = min(max_rows + 2, ws.max_row + 1) if max_rows else ws.max_row + 1
row_limit_of(ws, max_rows) ==
    IF max_rows # 0 THEN Min(max_rows + 2, max_row(ws) + 1) ELSE max_row(ws) + 1

\* get_tasks_from_excel(wb, max_rows, filter_program): max_rows 0 is None,
\* filter_program None is no filter.  ws.cell(row, None) raises (openpyxl
\* compares the column with 1), so the first data row read raises when the
\* discipline, level or task column is not resolved.
get_tasks_from_excel(ws, max_rows, filter_program, csv) ==
    LET cp == headers_get(ws, LblProgram)
        cd == headers_get(ws, LblDiscipline)
        cl == headers_get(ws, LblLevel)
        ct == headers_get(ws, LblTask)
        ca == headers_get(ws, LblAnswer)
        prompts == load_prompts(csv)
        last == IF Truthy(filter_program) THEN max_row(ws) + 1
                ELSE row_limit_of(ws, max_rows)
    IN  IF 2 < last /\ (cd = 0 \/ cl = 0 \/ ct = 0)
        THEN [raised |-> TRUE, tasks |-> <<>>, col_task |-> ct, col_answer |-> ca]
        ELSE [raised |-> FALSE,
              tasks |-> IF Truthy(filter_program)
                        THEN scan_program(ws, 2, <<>>, max_rows, filter_program,
                                          cp, cd, cl, ct, prompts)
                        ELSE scan_all(ws, 2, last, <<>>, cp, cd, cl, ct, prompts),
              col_task |-> ct, col_answer |-> ca]

---------------------------------------------------------------------------
(* Inputs                                                                  *)

Tokens == {"Z", "K", "O", " ", "\n", "a"}

\* every text of at most n tokens
TextsUpTo(n) == UNION {[1..k -> Tokens] : k \in 0..n}

\* what one backend call can do: any response text, or an exception whose
\* message is empty or not
Outcomes == {ResponseOf(t) : t \in TextsUpTo(MaxLen)}
            \cup {FailureOf(<<"e">>), FailureOf(<<>>)}

\* the header row: program, discipline, level, task, answer and one column
\* the program does not know
FullHeader == <<LblProgram, LblDiscipline, LblLevel, <<"Task", " ">>,
                LblAnswer, <<"Note">>>>

\* the header rows: complete, or with one of the five labels absent
Headers == {FullHeader} \cup {[FullHeader EXCEPT ![c] = None] : c \in 1..5}

\* the data rows: fit for generation (of program P1, of P1 written with a
\* blank, of P2), or unfit for one reason: no discipline, no level, a level
\* without prompt, a task already written
RowKinds ==
    { <<<<"P1">>,      <<"d">>, <<"Easy">>, None,    None,    <<"n">>>>,
      <<<<" ", "P1">>, <<"d">>, <<"Easy">>, None,    None,    <<"n">>>>,
      <<<<"P2">>,      <<"d">>, <<"Easy">>, None,    None,    <<"n">>>>,
      <<<<"P1">>,      None,    <<"Easy">>, None,    None,    <<"n">>>>,
      <<<<"P1">>,      <<"d">>, None,       None,    None,    <<"n">>>>,
      <<<<"P1">>,      <<"d">>, <<"Hard">>, None,    None,    <<"n">>>>,
      <<<<"P1">>,      <<"d">>, <<"Easy">>, <<"t">>, <<"k">>, <<"n">>>> }

\* the worksheets with at most n data rows
Sheets(n) == {<<h>> \o r : h \in Headers, r \in UNION {[1..k -> RowKinds] : k \in 0..n}}

Programs == {<<"P1">>, <<"P2">>}

\* no file in the uploader; a file openpyxl cannot read; a workbook
NoFile == [present |-> FALSE, corrupt |-> TRUE, sheet |-> <<>>]
CorruptFile == [present |-> TRUE, corrupt |-> TRUE, sheet |-> <<>>]
FileOf(sheet) == [present |-> TRUE, corrupt |-> FALSE, sheet |-> sheet]

\* values of variables a specification does not use
NoSession ==
    /\ uploaded_file = NoFile
    /\ chosen_model = None
    /\ chosen_program = None
    /\ processed_data = <<>>
NoRun ==
    /\ wb = <<>>
    /\ tasks = <<>>
    /\ col_task = 0
    /\ col_answer = 0
    /\ futures = <<>>
    /\ errors = 0
    /\ results = {}
    /\ completed = 0
    /\ progress = <<>>
    /\ notice = {}

---------------------------------------------------------------------------
(* Steps 2 and 3 of the page                                               *)

\* count_total_tasks(wb): the number of rows fit for generation; it reads
\* the discipline, level and task cell of every data row, so it raises like
\* get_tasks_from_excel when one of the three columns is not resolved
count_total_tasks(ws, csv) ==
    LET cd == headers_get(ws, LblDiscipline)
        cl == headers_get(ws, LblLevel)
        ct == headers_get(ws, LblTask)
    IN  IF max_row(ws) >= 2 /\ (cd = 0 \/ cl = 0 \/ ct = 0)
        THEN [raised |-> TRUE, count |-> 0]
        ELSE [raised |-> FALSE,
              count |-> Cardinality({row \in 2..max_row(ws) :
                           Selectable(ws, row, cd, cl, ct, load_prompts(csv))})]

\* get_educational_programs(wb): the stripped program names of the data rows
get_educational_programs(ws) ==
    LET cp == headers_get(ws, LblProgram)
    IN  IF cp = 0 THEN {}
        ELSE {strip(cell(ws, row, cp)) : row \in {r \in 2..max_row(ws) : Truthy(cell(ws, r, cp))}}

\* whether count_available_tasks_per_program(wb) raises: it returns {} when
\* there is no program column and reads the three other columns otherwise
count_available_tasks_per_program_raises(ws) ==
    /\ headers_get(ws, LblProgram) # 0
    /\ max_row(ws) >= 2
    /\ \/ headers_get(ws, LblDiscipline) = 0
       \/ headers_get(ws, LblLevel) = 0
       \/ headers_get(ws, LblTask) = 0

---------------------------------------------------------------------------
(* The batch run of step 4                                                 *)

\* a future of the executor
Future(st, n, res) == [state |-> st, calls |-> n, result |-> res]
NoResult == [raised |-> FALSE, task_text |-> None, answer_text |-> None, error |-> None]

Indices(st) == {i \in 1..Len(futures) : futures[i].state = st}

\* the executor runs a queued call only on a free worker of its MAX_WORKERS
pool_unbounded(running) == TRUE
pool_exhausted(running) == running < 0
pool_has_free_worker(running) == running < MAX_WORKERS

\* ws.cell(task['row'], col_task, task_text) and
\* ws.cell(task['row'], col_answer, answer_text): the second call raises
\* when col_answer is None, after the first has written
write_cells_row_above(ws, row, ct, ca, task_text, answer_text) ==
    IF ca = 0 THEN [ws |-> cell_set(ws, row - 1, ct, task_text), raised |-> TRUE]
    ELSE [ws |-> cell_set(cell_set(ws, row - 1, ct, task_text), row - 1, ca, answer_text),
          raised |-> FALSE]
\* write_cells with every item writing to the first data row
write_cells_shared_row(ws, row, ct, ca, task_text, answer_text) ==
    IF ca = 0 THEN [ws |-> cell_set(ws, 2, ct, task_text), raised |-> TRUE]
    ELSE [ws |-> cell_set(cell_set(ws, 2, ct, task_text), 2, ca, answer_text),
          raised |-> FALSE]
write_cells(ws, row, ct, ca, task_text, answer_text) ==
    IF ca = 0 THEN [ws |-> cell_set(ws, row, ct, task_text), raised |-> TRUE]
    ELSE [ws |-> cell_set(cell_set(ws, row, ct, task_text), row, ca, answer_text),
          raised |-> FALSE]

\* what becomes of a future once the loop has handled it: nothing is
\* submitted again, whatever its result was
after_handling_retry(failed) == IF failed THEN "pending" ELSE "handled"
after_handling(failed) == "handled"

\* the body of the as_completed loop for one future: the workbook, the
\* previews and the error counter after it
handle(ws, task, ct, ca, res, prev, errs) ==
    IF res.raised THEN [ws |-> ws, results |-> prev, errors |-> errs + 1]
    ELSE IF Truthy(res.task_text) /\ Truthy(res.answer_text) THEN
        LET w == write_cells(ws, task.row, ct, ca, res.task_text, res.answer_text)
        IN  IF w.raised THEN [ws |-> w.ws, results |-> prev, errors |-> errs + 1]
            ELSE [ws |-> w.ws,
                  results |-> prev \cup {[row |-> task.row, discipline |-> task.discipline,
                                          task_text |-> res.task_text,
                                          answer_text |-> res.answer_text]},
                  errors |-> errs]
    ELSE [ws |-> ws, results |-> prev, errors |-> errs + 1]

\* promts.csv is opened anew by every load_prompts(): between two runs of
\* the script the file can become unreadable, or readable again
CatalogChange ==
    /\ pc = "idle"
    /\ promts_csv' = IF promts_csv.missing THEN CatalogFile ELSE NoCatalogFile
    /\ notice' = {}
    /\ UNCHANGED <<session, pc, run_but_notice, args, ret>>

\* the file_uploader of step 1 hands over a file; the messages of the
\* previous run of the script are gone
Upload(files) ==
    /\ pc = "idle"
    /\ \E f \in files : uploaded_file' = f
    /\ notice' = {}
    /\ UNCHANGED <<chosen_model, chosen_program, processed_data, promts_csv, pc,
                   run_but_notice, args, ret>>

\* a model button of step 2: shown once a file is uploaded and no model is
\* chosen, and only when the file holds a row to generate for
ChooseModel(models) ==
    /\ pc = "idle"
    /\ uploaded_file.present
    /\ chosen_model = None
    /\ LET ws == load_excel(uploaded_file)
       IN  /\ ws # <<>>
           /\ ~count_total_tasks(ws, promts_csv).raised
           /\ count_total_tasks(ws, promts_csv).count > 0
    /\ \E m \in models : chosen_model' = m
    /\ notice' = {}
    /\ UNCHANGED <<uploaded_file, chosen_program, processed_data, promts_csv, pc,
                   run_but_notice, args, ret>>

\* a program button of step 3
ChooseProgram ==
    /\ pc = "idle"
    /\ chosen_model # None
    /\ uploaded_file.present
    /\ LET ws == load_excel(uploaded_file)
       IN  /\ ws # <<>>
           /\ ~count_available_tasks_per_program_raises(ws)
           /\ ~count_total_tasks(ws, promts_csv).raised
           /\ \E p \in get_educational_programs(ws) : chosen_program' = p
    /\ notice' = {}
    /\ UNCHANGED <<uploaded_file, chosen_model, processed_data, promts_csv, pc,
                   run_but_notice, args, ret>>

\* what the button of step 4 shows when it does not reach the executor:
\* st.error of load_excel; st.error of load_prompts (called by the
\* selector before it reads a row); the exception of the selector; the
\* warning of an empty selection.  {} when the run goes on.
run_notice_success(file, batch_size, program, csv) == {"success"}
run_notice_unreported(file, batch_size, program, csv) == {"no_tasks"}
run_notice(file, batch_size, program, csv) ==
    LET ws == load_excel(file)
    IN  IF ws = <<>> THEN {"load_error"}
        ELSE LET sel == get_tasks_from_excel(ws, batch_size, program, csv)
             IN  (IF csv.missing THEN {"catalog_error"} ELSE {})
                 \cup (IF sel.raised THEN {"exception"}
                       ELSE IF sel.tasks = <<>> THEN {"no_tasks"}
                       ELSE {})

\* the button of step 4, up to the executor: load the workbook, select the
\* tasks; the step is shown when a model and a program are chosen
StartRun(batch_sizes) ==
    /\ pc = "idle"
    /\ chosen_model # None /\ chosen_program # None
    /\ \E batch_size \in batch_sizes :
         LET ws == load_excel(uploaded_file)
             sel == get_tasks_from_excel(ws, batch_size, chosen_program, promts_csv)
         IN  /\ notice' = run_notice(uploaded_file, batch_size, chosen_program,
                                     promts_csv)
             /\ IF ws = <<>> THEN
                    \* load_excel has returned None
                    UNCHANGED <<pc, wb, tasks, col_task, col_answer>>
                ELSE IF sel.raised THEN
                    \* the exception ends this run of the script
                    UNCHANGED <<pc, wb, tasks, col_task, col_answer>>
                ELSE IF sel.tasks = <<>> THEN
                    UNCHANGED <<pc, wb, tasks, col_task, col_answer>>
                ELSE
                    /\ pc' = "submit"
                    /\ wb' = ws
                    /\ tasks' = sel.tasks
                    /\ col_task' = sel.col_task
                    /\ col_answer' = sel.col_answer
    /\ UNCHANGED <<session, promts_csv, futures, errors, results, completed,
                   progress, args, ret>>

\* executor.submit for the next task of the list; after the last one the
\* as_completed loop begins
Submit ==
    /\ pc = "submit"
    /\ futures' = Append(futures, Future("pending", 0, NoResult))
    /\ pc' = IF Len(futures) + 1 = Len(tasks) THEN "collect" ELSE "submit"
    /\ UNCHANGED <<session, promts_csv, wb, tasks, col_task, col_answer, errors,
                   results, completed, progress, notice, args, ret>>

\* a worker thread takes the oldest queued call and enters generate_func
WorkerStart ==
    /\ pc \in {"submit", "collect"}
    /\ Indices("pending") # {}
    /\ pool_has_free_worker(Cardinality(Indices("running")))
    /\ LET i == CHOOSE k \in Indices("pending") : \A j \in Indices("pending") : k <= j
       IN  futures' = [futures EXCEPT ![i].state = "running", ![i].calls = @ + 1]
    /\ UNCHANGED <<session, promts_csv, pc, wb, tasks, col_task, col_answer, errors,
                   results, completed, progress, notice, args, ret>>

\* what the backend does for a task, by shape: both sections under their
\* markers, two lines without markers, one line without markers, or a
\* transport failure; a response text names the row it was asked for
OutcomeOf(task, shape) ==
    LET tag == ToString(task.row)
    IN  CASE shape = "sections" -> ResponseOf(<<"Z", tag, "K", "a">>)
          [] shape = "lines"    -> ResponseOf(<<tag, "\n", "a">>)
          [] shape = "line"     -> ResponseOf(<<tag>>)
          [] shape = "failure"  -> FailureOf(<<"e">>)

\* the shapes of what the backend does
Shapes == {"sections", "lines", "line", "failure"}

\* what generate_func returns for the task of a row when the backend does
\* what a shape says, for every row of the worksheets of the model
generate_func_result ==
    [row \in 2..(MAX_WORKERS + MaxRunRow + MaxLiveRow), shape \in Shapes |->
        generate_func(OutcomeOf([row |-> row], shape))]

\* WorkerReturn with the worker thread itself writing the task cell
WorkerReturn_writing(shapes) ==
    /\ pc \in {"submit", "collect"}
    /\ \E i \in Indices("running") : \E sh \in shapes :
         LET r == generate_func_result[tasks[i].row, sh]
         IN  /\ futures' = [futures EXCEPT ![i].state = "finished",
                                ![i].result = [raised |-> FALSE, task_text |-> r.task_text,
                                               answer_text |-> r.answer_text, error |-> r.error]]
             /\ wb' = IF Truthy(r.task_text)
                      THEN cell_set(wb, tasks[i].row, col_task, r.task_text)
                      ELSE wb
    /\ UNCHANGED <<session, promts_csv, pc, tasks, col_task, col_answer, errors,
                   results, completed, progress, notice, args, ret>>

\* generate_func returns in a worker thread: the future holds its result
WorkerReturn(shapes) ==
    /\ pc \in {"submit", "collect"}
    /\ \E i \in Indices("running") : \E sh \in shapes :
         LET r == generate_func_result[tasks[i].row, sh]
         IN  futures' = [futures EXCEPT ![i].state = "finished",
                            ![i].result = [raised |-> FALSE, task_text |-> r.task_text,
                                           answer_text |-> r.answer_text, error |-> r.error]]
    /\ UNCHANGED <<session, promts_csv, pc, wb, tasks, col_task, col_answer, errors,
                   results, completed, progress, notice, args, ret>>

\* the call raises in a worker thread: future.result() will raise
WorkerRaise ==
    /\ pc \in {"submit", "collect"}
    /\ \E i \in Indices("running") :
         futures' = [futures EXCEPT ![i].state = "finished", ![i].result.raised = TRUE]
    /\ UNCHANGED <<session, promts_csv, pc, wb, tasks, col_task, col_answer, errors,
                   results, completed, progress, notice, args, ret>>

\* status_text.text(f"Обработано: {completed}/{len(tasks)}"), called after
\* completed += 1
progress_text_before_increment(done, total) == <<done - 1, total>>
progress_text(done, total) == <<done, total>>

\* one turn of the as_completed loop, for a future that is done
Collect ==
    /\ pc = "collect"
    /\ \E i \in Indices("finished") :
         LET res == futures[i].result
             h == handle(wb, tasks[i], col_task, col_answer, res, results, errors)
             failed == h.errors # errors
         IN  /\ wb' = h.ws
             /\ results' = h.results
             /\ errors' = h.errors
             /\ futures' = [futures EXCEPT ![i].state = after_handling(failed)]
    /\ completed' = completed + 1
    /\ progress' = Append(progress, progress_text(completed', Len(tasks)))
    /\ UNCHANGED <<session, promts_csv, pc, tasks, col_task, col_answer, notice,
                   args, ret>>

\* after the loop: wb.save(output), the workbook is kept for the download
\* and the counts are shown
Save ==
    /\ pc = "collect"
    /\ completed = Len(tasks)
    /\ processed_data' = wb
    /\ notice' = {"success"}
    /\ pc' = "done"
    /\ UNCHANGED <<uploaded_file, chosen_model, chosen_program, promts_csv, run_but_notice,
                   args, ret>>

\* step 5: the download button hands out processed_data
Download ==
    /\ pc = "done"
    /\ processed_data # <<>>
    /\ pc' = "downloaded"
    /\ UNCHANGED <<session, promts_csv, run, args, ret>>

---------------------------------------------------------------------------
(* The page: one session up to its batch run and the download              *)

RunHeaders == {FullHeader, [FullHeader EXCEPT ![5] = None],
               [FullHeader EXCEPT ![4] = None]}

RunRowKinds ==
    { <<<<"P1">>, <<"d">>, <<"Easy">>, None,    None,    <<"n">>>>,
      <<<<"P2">>, <<"d">>, <<"Easy">>, None,    None,    <<"n">>>>,
      <<<<"P1">>, <<"d">>, <<"Easy">>, <<"t">>, <<"k">>, <<"n">>>> }

RunFiles ==
    {CorruptFile} \cup
    {FileOf(<<h>> \o r) : h \in RunHeaders,
                          r \in UNION {[1..k -> RunRowKinds] : k \in 0..MaxRunRow}}

\* keys of MODEL_COSTS offered by the buttons of step 2
Models == {<<"deepseek">>, <<"gpt51">>}

\* the slider of step 4 offers 10, 20, ..., 2000; the limits 1..MaxBatch
\* stand for a limit below the number of rows of a worksheet of MaxRunRow
\* rows
BatchSizes == (1..MaxBatch) \cup {10}

Init ==
    /\ NoSession
    /\ NoRun
    /\ promts_csv \in {CatalogFile, NoCatalogFile}
    /\ pc = "idle"
    /\ args = <<>>
    /\ ret = <<>>

Next ==
    \/ CatalogChange
    \/ Upload(RunFiles)
    \/ ChooseModel(Models)
    \/ ChooseProgram
    \/ StartRun(BatchSizes)
    \/ Submit
    \/ WorkerStart
    \/ WorkerReturn(Shapes)
    \/ WorkerRaise
    \/ Collect
    \/ Save
    \/ Download

Spec == Init /\ [][Next]_vars

---------------------------------------------------------------------------
(* A batch run with its scheduling: a file is uploaded, a model and a      *)
(* program are chosen, the slider is at 10.  The script's thread goes on   *)
(* submitting, collecting and saving; the executor starts a queued call    *)
(* once a worker is free; every generation call returns or raises.         *)

LiveFiles ==
    {FileOf(<<h>> \o r) : h \in {FullHeader, [FullHeader EXCEPT ![5] = None]},
                          r \in UNION {[1..k -> RunRowKinds] : k \in 1..MaxLiveRow}}

InitLive ==
    /\ uploaded_file \in LiveFiles
    /\ chosen_model = <<"deepseek">>
    /\ chosen_program = <<"P1">>
    /\ processed_data = <<>>
    /\ NoRun
    /\ promts_csv = CatalogFile
    /\ pc = "idle"
    /\ args = <<>>
    /\ ret = <<>>

Returns == WorkerReturn(Shapes) \/ WorkerRaise

NextLive ==
    \/ StartRun({10})
    \/ Submit
    \/ WorkerStart
    \/ Returns
    \/ Collect
    \/ Save
    \/ Download

\* a step of the run: of the script's thread, of the executor or of a call
RunStep == Submit \/ WorkerStart \/ Returns \/ Collect \/ Save

\* the run goes on while one of its steps is possible; the operator may
\* never press the button
SpecLive == InitLive /\ [][NextLive]_vars /\ WF_vars(RunStep)

---------------------------------------------------------------------------
(* A batch run over one task more than the pool has workers, the slider at  *)
(* 20, every call answered in the format asked for                         *)

PoolSheet ==
    <<FullHeader>> \o
    [i \in 1..(MAX_WORKERS + 1) |->
        <<<<"P1">>, <<"d">>, <<"Easy">>, None, None, <<"n">>>>]

InitPool ==
    /\ uploaded_file = FileOf(PoolSheet)
    /\ chosen_model = <<"deepseek">>
    /\ chosen_program = <<"P1">>
    /\ processed_data = <<>>
    /\ NoRun
    /\ promts_csv = CatalogFile
    /\ pc = "idle"
    /\ args = <<>>
    /\ ret = <<>>

NextPool ==
    \/ StartRun({20})
    \/ Submit
    \/ WorkerStart
    \/ WorkerReturn({"sections"})
    \/ Collect
    \/ Save
    \/ Download

SpecPool == InitPool /\ [][NextPool]_vars

---------------------------------------------------------------------------
(* The adapter called on its own                                           *)

InitAdapter ==
    /\ NoSession
    /\ NoRun
    /\ promts_csv = CatalogFile
    /\ pc = "generate"
    /\ args \in Outcomes
    /\ ret = [task_text |-> None, answer_text |-> None, error |-> None]

\* one call of generate_func
CallGenerate ==
    /\ pc = "generate"
    /\ ret' = generate_func(args)
    /\ pc' = "generated"
    /\ UNCHANGED <<session, run, promts_csv, args>>

NextAdapter == CallGenerate

SpecAdapter == InitAdapter /\ [][NextAdapter]_vars

---------------------------------------------------------------------------
(* The cost estimate called on its own                                     *)

\* the rates: 0, small rates, and the fallback rate of get_usd_rub_rate
Rates == (0..MaxRate) \cup {90}

InitCost ==
    /\ NoSession
    /\ NoRun
    /\ promts_csv = CatalogFile
    /\ pc = "cost"
    /\ args \in [num_tasks : 0..MaxTasks, model_key : DOMAIN MODEL_COSTS,
                 usd_rub_rate : Rates]
    /\ ret = [cost_usd |-> 0, cost_rub |-> 0]

\* one call of calculate_cost
CallCost ==
    /\ pc = "cost"
    /\ ret' = calculate_cost(args.num_tasks, args.model_key, args.usd_rub_rate)
    /\ pc' = "costed"
    /\ UNCHANGED <<session, run, promts_csv, args>>

NextCost == CallCost

SpecCost == InitCost /\ [][NextCost]_vars

---------------------------------------------------------------------------
(* The selector called on its own                                          *)

InitSelect ==
    /\ NoSession
    /\ NoRun
    /\ promts_csv \in {CatalogFile, NoCatalogFile}
    /\ pc = "select"
    /\ args \in [ws : Sheets(MaxRow), max_rows : 0..MaxRow,
                 filter_program : {None} \cup Programs]
    /\ ret = [raised |-> FALSE, tasks |-> <<>>, col_task |-> 0, col_answer |-> 0]

\* one call of get_tasks_from_excel
CallSelect ==
    /\ pc = "select"
    /\ ret' = get_tasks_from_excel(args.ws, args.max_rows, args.filter_program,
                                   promts_csv)
    /\ pc' = IF ret'.raised THEN "raised" ELSE "selected"
    /\ UNCHANGED <<session, run, promts_csv, args>>

NextSelect == CallSelect

SpecSelect == InitSelect /\ [][NextSelect]_vars

---------------------------------------------------------------------------
(* Properties of the selector                                              *)

\* the rows of the items the call returned
ReturnedRows == {ret.tasks[i].row : i \in 1..Len(ret.tasks)}

\* the items are in ascending row order
Ascending(ts) == \A i, j \in 1..Len(ts) : i < j => ts[i].row < ts[j].row

\* a data row fit for generation, read off the worksheet and the catalog
\* file: discipline and level non-empty, task cell empty, level a key of
\* the catalog
EligibleRow(ws, row) ==
    LET cd == headers_get(ws, LblDiscipline)
        cl == headers_get(ws, LblLevel)
        ct == headers_get(ws, LblTask)
    IN  /\ cd # 0 /\ cl # 0 /\ ct # 0
        /\ ws[row][cd] \notin {None, <<>>}
        /\ ws[row][cl] \notin {None, <<>>}
        /\ ws[row][ct] \in {None, <<>>}
        /\ ws[row][cl] \in DOMAIN load_prompts(promts_csv)

EligibleRows(ws) == {row \in 2..Len(ws) : EligibleRow(ws, row)}

\* the eligible rows of one program (names compared after trimming)
EligibleRowsOf(ws, program) ==
    LET cp == headers_get(ws, LblProgram)
    IN  {row \in EligibleRows(ws) :
            /\ cp # 0
            /\ ws[row][cp] \notin {None, <<>>}
            /\ strip(ws[row][cp]) = strip(program)}

\* the n lowest rows of a set of rows
Lowest(rows, n) == {r \in rows : Cardinality({q \in rows : q < r}) < n}

\* C1: without limit and without program filter the selector returns an
\* item for a data row if and only if the row's discipline and level are
\* non-empty, its task cell is empty and its level is a key of the catalog.
C1_SelectorEligibility ==
    (pc = "selected" /\ args.max_rows = 0 /\ args.filter_program = None) =>
        /\ \A row \in 2..Len(args.ws) :
              row \in ReturnedRows <=> EligibleRow(args.ws, row)
        /\ ReturnedRows \subseteq 2..Len(args.ws)
        /\ Ascending(ret.tasks)

\* a call without limit and filter over three data rows that returned two
\* items and left one row out
C1_Witness ==
    /\ pc = "selected" /\ args.max_rows = 0 /\ args.filter_program = None
    /\ Len(args.ws) = 4
    /\ Len(ret.tasks) = 2

\* C2: with a program filter and a limit L below the number of eligible
\* rows of that program, the selector returns exactly L items, all of that
\* program, in ascending row order: the L lowest eligible rows of the
\* program in the whole worksheet.
C2_FilterCompleteness ==
    (/\ pc = "selected"
     /\ args.filter_program # None
     /\ args.max_rows >= 1
     /\ args.max_rows < Cardinality(EligibleRowsOf(args.ws, args.filter_program))) =>
        /\ Len(ret.tasks) = args.max_rows
        /\ \A i \in 1..Len(ret.tasks) :
              strip(ret.tasks[i].program) = strip(args.filter_program)
        /\ Ascending(ret.tasks)
        /\ ReturnedRows = Lowest(EligibleRowsOf(args.ws, args.filter_program),
                                 args.max_rows)

\* a call with filter P1 and limit 1 whose first data row is of another
\* program and whose worksheet holds two eligible rows of P1
C2_Witness ==
    /\ pc = "selected"
    /\ args.filter_program = <<"P1">>
    /\ args.max_rows = 1
    /\ Cardinality(EligibleRowsOf(args.ws, <<"P1">>)) = 2
    /\ 2 \notin EligibleRowsOf(args.ws, <<"P1">>)
    /\ ReturnedRows = {3}

\* C3: without a program filter and with a limit L the selector returns the
\* first min(L, E) eligible rows in row order, E being the number of
\* eligible rows of the whole worksheet.
C3_LimitCountsEligibleRows ==
    (pc = "selected" /\ args.filter_program = None /\ args.max_rows >= 1) =>
        /\ Ascending(ret.tasks)
        /\ ReturnedRows = Lowest(EligibleRows(args.ws), args.max_rows)

\* C8: when the discipline, level or task column has no header, the selector
\* returns an empty list and raises nothing.
C8_MissingColumnYieldsEmptyList ==
    (/\ pc \in {"selected", "raised"}
     /\ \/ headers_get(args.ws, LblDiscipline) = 0
        \/ headers_get(args.ws, LblLevel) = 0
        \/ headers_get(args.ws, LblTask) = 0) =>
        pc = "selected" /\ ret.tasks = <<>>

---------------------------------------------------------------------------
(* Properties of the adapters                                              *)

\* C4: every result of an adapter is either a task and an answer, both
\* non-empty, with no error, or a non-empty error with neither task nor
\* answer.
C4_ResultInvariant ==
    pc = "generated" =>
        \/ Truthy(ret.task_text) /\ Truthy(ret.answer_text) /\ ret.error = None
        \/ Truthy(ret.error) /\ ret.task_text = None /\ ret.answer_text = None

\* the positions of the line breaks of a text
LineBreaks(s) == {i \in 1..Len(s) : s[i] = "\n"}

\* the position of the k-th line break of a text
LineBreak(s, k) ==
    CHOOSE i \in LineBreaks(s) : Cardinality({j \in LineBreaks(s) : j <= i}) = k

\* C13: for a response text without section marker and with n >= 2 lines
\* after trimming, parse_response returns no error, a non-empty task and a
\* non-empty answer: the trimmed text cut at its floor(n/2)-th line break,
\* the lines before it being the task and the lines after it the answer
\* (each trimmed).
C13_DegradedSplit ==
    (/\ pc = "generated"
     /\ args.kind = "text"
     /\ ~Contains(args.text, "Z") /\ ~Contains(args.text, "K")
     /\ ~Contains(args.text, "O")
     /\ LineBreaks(strip(args.text)) # {}) =>
        LET s == strip(args.text)
            n == Cardinality(LineBreaks(s)) + 1
            cut == LineBreak(s, n \div 2)
        IN  /\ ret.error = None
            /\ ret.task_text # None /\ ret.task_text # <<>>
            /\ ret.answer_text # None /\ ret.answer_text # <<>>
            /\ ret.task_text = strip(SubSeq(s, 1, cut - 1))
            /\ ret.answer_text = strip(SubSeq(s, cut + 1, Len(s)))

\* three lines without marker: the first is the task, the other two are the
\* answer
C13_Witness ==
    /\ pc = "generated"
    /\ args = ResponseOf(<<"a", "\n", "a", "\n", "a">>)
    /\ ret.task_text = <<"a">>
    /\ ret.answer_text = <<"a", "\n", "a">>

---------------------------------------------------------------------------
(* Properties of the cost estimate                                         *)

\* y is x up to the rounding of one float operation
NearlyEqual(y, x) ==
    (2 ^ MantissaBits) * (IF y >= x THEN y - x ELSE x - y) <= x

\* C19: calculate_cost is monotone and linear in the number of tasks: for
\* every model, rate r >= 0 and n <= n2 the cost of n is at most the cost of
\* n2 in both currencies, the cost of 2n is twice the cost of n, the cost in
\* USD is n times the cost per task of the model and the cost in RUB is the
\* cost in USD times r (products as the float arithmetic gives them).
C19_CostLinearMonotone ==
    pc = "costed" =>
        LET n == args.num_tasks
            m == args.model_key
            r == args.usd_rub_rate
        IN  /\ \A n2 \in n..(2 * MaxTasks) :
                  /\ ret.cost_usd <= calculate_cost(n2, m, r).cost_usd
                  /\ ret.cost_rub <= calculate_cost(n2, m, r).cost_rub
            /\ calculate_cost(2 * n, m, r).cost_usd = 2 * ret.cost_usd
            /\ calculate_cost(2 * n, m, r).cost_rub = 2 * ret.cost_rub
            /\ NearlyEqual(ret.cost_usd, n * MODEL_COSTS[m])
            /\ BitLen(n * MODEL_COSTS[m]) <= MantissaBits =>
                  ret.cost_usd = n * MODEL_COSTS[m]
            /\ NearlyEqual(ret.cost_rub, ret.cost_usd * r)
            /\ BitLen(ret.cost_usd * r) <= MantissaBits =>
                  ret.cost_rub = ret.cost_usd * r

\* a call whose two products were both rounded
C19_Witness ==
    /\ pc = "costed"
    /\ args.num_tasks >= 1 /\ args.usd_rub_rate >= 1
    /\ ret.cost_usd # args.num_tasks * MODEL_COSTS[args.model_key]
    /\ ret.cost_rub # ret.cost_usd * args.usd_rub_rate

---------------------------------------------------------------------------
(* Properties of the batch run                                             *)

InRun == pc \in {"submit", "collect", "done", "downloaded"}
Finished == pc \in {"done", "downloaded"}

\* the result of a generation call holds a task and an answer
ResultOK(res) == ~res.raised /\ Truthy(res.task_text) /\ Truthy(res.answer_text)

\* the tasks whose completion the loop has handled
Handled == {i \in 1..Len(futures) : futures[i].state = "handled"}

\* task i is counted as a success: the run holds a preview of its row
CountedSuccess(i) == \E e \in results : e.row = tasks[i].row

\* the workbook as load_excel read it at the start of the run
Original == load_excel(uploaded_file)

TaskRows == {tasks[i].row : i \in 1..Len(tasks)}

\* C5: every item of a run is counted exactly once, as a success if its own
\* result holds a task and an answer and as an error otherwise (a raising
\* call included), whatever the other items did; success + error = N.
C5_CountedByOwnResult ==
    InRun =>
        /\ \A i \in Handled : CountedSuccess(i) <=> ResultOK(futures[i].result)
        /\ \A i \in (1..Len(tasks)) \ Handled : ~CountedSuccess(i)
        /\ Cardinality(results) = Cardinality({i \in Handled : ResultOK(futures[i].result)})
        /\ errors = Cardinality({i \in Handled : ~ResultOK(futures[i].result)})
        /\ Finished => Cardinality(results) + errors = Len(tasks)

\* C6: when the run has finished, the task cell and the answer cell of the
\* row of every item whose result holds a task and an answer hold exactly
\* these two texts.
C6_SuccessfulResultsWritten ==
    Finished =>
        \A i \in 1..Len(tasks) :
            ResultOK(futures[i].result) =>
                /\ col_task # 0 /\ col_answer # 0
                /\ wb[tasks[i].row][col_task] = futures[i].result.task_text
                /\ wb[tasks[i].row][col_answer] = futures[i].result.answer_text
                /\ processed_data[tasks[i].row][col_task] = futures[i].result.task_text
                /\ processed_data[tasks[i].row][col_answer] = futures[i].result.answer_text

\* C7: a run changes only the task and answer cells of the rows selected as
\* its work items; every other cell keeps the value the file had, the
\* selection itself changes no cell, and the saved workbook is that one.
C7_OnlySelectedCellsChange ==
    InRun =>
        /\ Len(wb) = Len(Original)
        /\ \A r \in 1..Len(wb) :
              /\ Len(wb[r]) = Len(Original[r])
              /\ \A c \in 1..Len(wb[r]) :
                    (r \notin TaskRows \/ c \notin {col_task, col_answer}) =>
                        wb[r][c] = Original[r][c]
        /\ completed = 0 => wb = Original
        /\ Finished => processed_data = wb

\* a finished run over one item of a worksheet of three data rows, one of
\* them an eligible row of the same program beyond the limit, that has
\* written its item
C7_Witness ==
    /\ pc = "done"
    /\ Len(tasks) = 1
    /\ Len(wb) = 4
    /\ wb # Original
    /\ \E r \in EligibleRowsOf(Original, chosen_program) : r \notin TaskRows
    /\ \E r \in 2..Len(wb) : r \notin EligibleRowsOf(Original, chosen_program)

\* C9: at every moment of a run at most MAX_WORKERS generation calls are in
\* flight; the calls beyond wait in the queue.
C9_InFlightAtMostPoolSize ==
    Cardinality(Indices("running")) <= MAX_WORKERS

\* MAX_WORKERS calls in flight and one more waiting
C9_Witness ==
    /\ Cardinality(Indices("running")) = MAX_WORKERS
    /\ Indices("pending") # {}

\* C10: within a run the generation function is invoked exactly once per
\* work item, whether the call succeeds or fails; nothing is submitted twice.
C10_OneCallPerItem ==
    /\ Len(futures) <= Len(tasks)
    /\ \A i \in 1..Len(futures) :
          futures[i].calls = IF futures[i].state = "pending" THEN 0 ELSE 1
    /\ Finished => /\ Len(futures) = Len(tasks)
                   /\ \A i \in 1..Len(tasks) : futures[i].calls = 1

\* a finished run with a failed item and a successful one
C10_Witness ==
    /\ pc = "done"
    /\ errors >= 1
    /\ results # {}
    /\ \A i \in 1..Len(tasks) : futures[i].calls = 1

\* C11: every write to the worksheet during a run is a step of the one
\* thread that collects completions, made while it handles one finished
\* future; the steps of the worker threads (a call starting, returning or
\* raising) change no cell, so no two threads ever write at the same time.
C11_SingleWriter ==
    [][(pc \in {"submit", "collect"} /\ wb' # wb) =>
          /\ pc = "collect"
          /\ completed' = completed + 1
          /\ \E i \in Indices("finished") :
                futures' = [futures EXCEPT ![i].state = "handled"]]_vars

\* the collecting thread has written a result while a call of a worker
\* thread was in flight
C11_Witness ==
    /\ pc = "collect"
    /\ wb # Original
    /\ Indices("running") # {}
    /\ Handled # {}

\* the body of the loop applied, in the order of submission, to the
\* futures handled so far, each with the result its call gave, from future i
\* on
RECURSIVE replay(_, _)
replay(i, acc) ==
    IF i > Len(futures) THEN acc
    ELSE replay(i + 1,
                IF futures[i].state = "handled"
                THEN handle(acc.ws, tasks[i], col_task, col_answer,
                            futures[i].result, acc.results, acc.errors)
                ELSE acc)

\* C12: the work items of a run have pairwise distinct rows, and for given
\* items and given results of their calls the worksheet, the successes and
\* the error count are those of handling the completions in the order of
\* submission, in whatever order the calls completed and were handled; so
\* the final worksheet and counts are the same for every completion order.
C12_CompletionOrderIrrelevant ==
    InRun =>
        /\ \A i, j \in 1..Len(tasks) : i # j => tasks[i].row # tasks[j].row
        /\ LET r == replay(1, [ws |-> Original, results |-> {}, errors |-> 0])
           IN  /\ wb = r.ws
               /\ results = r.results
               /\ errors = r.errors
        /\ Finished => processed_data = replay(1, [ws |-> Original, results |-> {},
                                                  errors |-> 0]).ws

\* the second item submitted was handled, and written, before the first
C12_Witness ==
    /\ pc = "collect"
    /\ Len(futures) = 2
    /\ futures[2].state = "handled"
    /\ futures[1].state = "finished"
    /\ ResultOK(futures[1].result) /\ ResultOK(futures[2].result)
    /\ wb # Original

---------------------------------------------------------------------------
(* Properties of the run button                                            *)

\* the button of step 4 was pressed and the script ended without a run:
\* every other step of the page clears the messages
Aborted == pc = "idle" /\ notice # {}

\* the selector raises on the uploaded worksheet: a data row is read through
\* a column that has no header
SelectorRaises(ws) ==
    /\ Len(ws) >= 2
    /\ \/ headers_get(ws, LblDiscipline) = 0
       \/ headers_get(ws, LblLevel) = 0
       \/ headers_get(ws, LblTask) = 0

\* nothing of a run exists: no call was submitted, no cell written, no
\* workbook stored
NothingProduced ==
    /\ futures = <<>>
    /\ completed = 0 /\ errors = 0 /\ results = {} /\ progress = <<>>
    /\ wb = <<>> /\ tasks = <<>>
    /\ processed_data = <<>>

\* C14: when the worksheet holds no eligible row of the chosen program, the
\* button of step 4 issues no generation call, writes no cell, stores no
\* processed workbook and shows the notice 'no tasks to process' and not the
\* success message.
C14_EmptySelectionReported ==
    (/\ Aborted
     /\ Original # <<>>
     /\ ~SelectorRaises(Original)
     /\ EligibleRowsOf(Original, chosen_program) = {}) =>
        /\ "no_tasks" \in notice
        /\ "success" \notin notice
        /\ NothingProduced

\* the button was pressed for a program all of whose rows are filled while
\* the worksheet holds an eligible row of another program
C14_Witness ==
    /\ Aborted
    /\ Original # <<>>
    /\ ~promts_csv.missing
    /\ EligibleRowsOf(Original, chosen_program) = {}
    /\ EligibleRows(Original) # {}
    /\ notice = {"no_tasks"}
    /\ NothingProduced

\* C15: when the uploaded file cannot be loaded, or promts.csv cannot be
\* read, the button of step 4 shows the error of the loader that failed and
\* the script ends without a run: no generation call, no cell written, no
\* workbook stored, no success message.  No run is ever in progress over a
\* file or a catalog that cannot be loaded.
C15_LoadErrorHalts ==
    /\ (Aborted /\ Original = <<>>) =>
          "load_error" \in notice /\ "success" \notin notice /\ NothingProduced
    /\ (Aborted /\ Original # <<>> /\ promts_csv.missing) =>
          "catalog_error" \in notice /\ "success" \notin notice /\ NothingProduced
    /\ (uploaded_file.corrupt \/ promts_csv.missing) => ~InRun

\* the button was pressed with promts.csv unreadable, over a worksheet with
\* an unfilled row of the chosen program
C15_Witness ==
    /\ Aborted
    /\ promts_csv.missing
    /\ Original # <<>>
    /\ ~SelectorRaises(Original)
    /\ \E r \in 2..Len(Original) :
          /\ Original[r][headers_get(Original, LblProgram)] = chosen_program
          /\ Original[r][headers_get(Original, LblTask)] = None
    /\ notice = {"catalog_error", "no_tasks"}
    /\ NothingProduced

\* the button was pressed over a file that openpyxl cannot read
C15_WitnessFile ==
    /\ Aborted
    /\ uploaded_file = CorruptFile
    /\ notice = {"load_error"}

---------------------------------------------------------------------------
(* Properties of the end of a run                                          *)

\* the items of the run counted as successes
Successes == {i \in 1..Len(tasks) : CountedSuccess(i)}

\* the worksheet that holds the writes of exactly the successful items: the
\* two texts of each of them in its row, every other cell as in the file
ExpectedCell(r, c) ==
    IF \E i \in Successes : tasks[i].row = r /\ c = col_task
    THEN futures[CHOOSE i \in Successes : tasks[i].row = r].result.task_text
    ELSE IF \E i \in Successes : tasks[i].row = r /\ c = col_answer
    THEN futures[CHOOSE i \in Successes : tasks[i].row = r].result.answer_text
    ELSE Original[r][c]

\* C16: a run over at least one item ends, whatever the number of failed
\* items, with the success message and its counts; the worksheet is stored,
\* offered for download, and holds the writes of exactly the items that
\* succeeded.
C16_PartialSuccessStored ==
    Finished =>
        /\ Len(tasks) >= 1
        /\ "success" \in notice
        /\ Cardinality(results) + errors = Len(tasks)
        /\ processed_data # <<>>
        /\ pc = "done" => ENABLED Download
        /\ Len(processed_data) = Len(Original)
        /\ \A r \in 1..Len(processed_data) : \A c \in 1..Len(processed_data[r]) :
              processed_data[r][c] = ExpectedCell(r, c)

\* C17: once a file is uploaded and a model is chosen, the button of step 4
\* can be pressed with no program chosen.
C17_RunWithoutFilter ==
    (/\ pc = "idle"
     /\ Original # <<>>
     /\ chosen_model # None
     /\ chosen_program = None) =>
        ENABLED StartRun(BatchSizes)

\* C18: during a run over N items the progress is reported once after each
\* completion handled, successful or failed: the reports are 1/N, 2/N, ... in
\* this order, one per completion, and the last report of a finished run is
\* N/N.
C18_ProgressReports ==
    InRun =>
        /\ completed = Cardinality(Handled)
        /\ progress = [k \in 1..completed |-> <<k, Len(tasks)>>]
        /\ Finished => /\ Len(progress) = Len(tasks)
                       /\ progress[Len(progress)] = <<Len(tasks), Len(tasks)>>

\* a finished run over two items, one failed and one successful, has
\* reported 1/2 and 2/2
C18_Witness ==
    /\ pc = "done"
    /\ Len(tasks) = 2
    /\ errors = 1
    /\ Cardinality(results) = 1
    /\ progress = <<<<1, 2>>, <<2, 2>>>>

\* C20: once the completion of an item has been handled, either the task
\* cell and the answer cell of its row hold the two generated texts and the
\* item is counted as a success, or no cell of its row was modified and the
\* item is counted as an error; also when the answer column has no header.
C20_PairWrittenAtomically ==
    InRun =>
        /\ \A i \in Handled :
              LET r == tasks[i].row
                  res == futures[i].result
              IN  \/ /\ CountedSuccess(i)
                     /\ col_task # 0 /\ col_answer # 0
                     /\ wb[r][col_task] = res.task_text
                     /\ wb[r][col_answer] = res.answer_text
                  \/ /\ ~CountedSuccess(i)
                     /\ wb[r] = Original[r]
        /\ errors = Cardinality({i \in Handled : ~CountedSuccess(i)})

---------------------------------------------------------------------------
(* Termination of a run                                                    *)

\* the run is over: every call was started once, every completion was
\* handled and the workbook is stored
RunOver ==
    /\ Finished
    /\ completed = Len(tasks)
    /\ Len(futures) = Len(tasks)
    /\ \A i \in 1..Len(futures) :
          futures[i].state = "handled" /\ futures[i].calls = 1
    /\ processed_data = wb

\* C21: when every generation call returns or raises, a run over N items
\* finishes: every item is submitted, every call submitted is started by a
\* worker, every completion is handled, and the run reaches completed = N
\* with the workbook stored.  The run is never over while a call has not
\* returned: nothing cancels a call or stops waiting for it.
C21_RunTerminates ==
    /\ (pc = "submit") ~> RunOver
    /\ [](Finished => RunOver)
    /\ []((\E i \in 1..Len(futures) : futures[i].state \in {"pending", "running"})
            => pc \in {"submit", "collect"})
    /\ [][\A i \in 1..Len(futures) :
             (futures[i].state = "running" /\ futures'[i].state # "running") =>
                 (futures'[i].state = "finished" /\ completed' = completed)]_vars

\* a run over two items is over, one of its calls having raised and the
\* other having returned a task and an answer
C21_Witness ==
    /\ RunOver
    /\ Len(tasks) = 2
    /\ \E i \in 1..2 : futures[i].result.raised
    /\ \E i \in 1..2 : ResultOK(futures[i].result)

===========================================================================
